---- MODULE Spec2Model ----
(***************************************************************************)
(* watchparty: the periodic reconciliation loops of server/server.ts and   *)
(* server/syncSubs.ts as state machines.                                   *)
(*                                                                         *)
(*   SpecSync      server/syncSubs.ts: the subscriber reconciler, its      *)
(*                 timer, its passes (which may overlap: setInterval does  *)
(*                 not wait for the previous async pass) and the one pg    *)
(*                 connection.                                             *)
(*   SpecRelease   server/server.ts: the release sweep over rooms holding  *)
(*                 vBrowser sessions, with the clock.                      *)
(*   SpecRegistry  server/server.ts: the registry of one process under the *)
(*                 release sweep, freeUnusedRooms and /createRoom.         *)
(*   SpecFilter    server/server.ts: the per-shard load filter of          *)
(*                 getAllRooms and the /resolveShard route.                *)
(*   SpecShards    server/server.ts: the registries of the shard processes *)
(*                 of one deployment.                                      *)
(*   SpecStartup   server/server.ts: init() and the registry after it.     *)
(*   SpecSave      server/server.ts: the registry under saveRooms.         *)
(*   SpecMetrics   server/server.ts: minuteMetrics over the key/TTL store. *)
(*   SpecSyncSerial  server/syncSubs.ts: passes that do not overlap and    *)
(*                 whose calls are not rejected.                           *)
(*   SpecReleaseErrors, SpecSaveErrors, SpecMetricsErrors: the same with   *)
(*                 calls into a room or the store that are rejected.       *)
(***************************************************************************)
EXTENDS Integers, Sequences, FiniteSets, Bags, TLC

VARIABLES
    \* ---- server/syncSubs.ts ----
    alive,              \* the syncSubs process is running
    creds,              \* config.STRIPE_SECRET_KEY && config.FIREBASE_ADMIN_SDK_CONFIG
    lastSubsDigest,     \* module variable, line 8
    currentSubsDigest,  \* module variable, line 9
    pc,                 \* per pass: the await it is suspended at
    subs,               \* per pass: local `subs`
    uidMap,             \* per pass: local `uidMap`
    idx,                \* per pass: loop index i (lookup loop, then insert loop)
    result,             \* per pass: local `result`
    queue,              \* postgres2's query queue: the passes with a statement pending
    txOpen,             \* the connection postgres2 has a transaction open
    dbSubscriber,       \* committed rows of table subscriber (a bag)
    dbIsSubRoom,        \* committed room."isSubRoom", per room row
    wSubscriber,        \* the open transaction's view of subscriber
    wIsSubRoom,         \* the open transaction's view of room."isSubRoom"
    \* ---- history variables (observers, never read by the program) ----
    provider,           \* the lists getAllActiveSubscriptions() returns in this run
    started,            \* passes started so far
    lastDone,           \* resolved-uid sequence of the last pass to complete
    sameAsPrev,         \* per pass: at its comparison, same sequence as lastDone
    addedOne,           \* per pass: at its comparison, lastDone plus one uid
    failedPass,         \* the pass whose statement failed (0: none)
    \* ---- server/server.ts, one process ----
    serverPc,           \* where the process is: in init(), serving, or gone
    postgres,           \* config.DATABASE_URL is set (line 55)
    rooms,              \* the keys of the Map `rooms` (line 64)
    roster,             \* per room: room.roster.length
    vBrowser,           \* per room: room.vBrowser
    lastUpdateTime,     \* per room: room.lastUpdateTime
    now,                \* the clock, ms
    due,                \* the release timer is due (line 90)
    currBatch,          \* line 522
    persisted,          \* the roomIds of the rows of table room
    freePc,             \* freeUnusedRooms: "idle", or "reply" while it awaits line 605
    persistedSet,       \* freeUnusedRooms: the rows its query returned
    creating,           \* /createRoom: the rooms of handlers suspended at line 268
    savePc,             \* saveRooms: "loop" inside the for of line 511, or "sleep"
    saveLeft,           \* saveRooms: the rooms of roomArr it has not come to
    saveLog,            \* saveRooms: the rooms this iteration came to, saved or not
    meterPc,            \* minuteMetrics: "next" between rooms, else the call awaited
    meterCur,           \* minuteMetrics: the room whose calls are awaited
    meterLeft,          \* minuteMetrics: the rooms of roomArr it has not come to
    expireTime,         \* minuteMetrics: line 581, in seconds
    creator,            \* room -> the creator uid and client id its sessions carry, or not
    redis,              \* the key/TTL store: locks' remaining seconds, counters, their expiry
    meterRuns,          \* the runs of minuteMetrics so far
    meterStart,         \* the store when the run came to meterCur
    meterHeld,          \* meterCur has kept its session since the run came to it
    meterFailed,        \* the rooms a call made for which the store has rejected
    \* ---- history variables ----
    visits,             \* per room: selected or not, in the last sweeps it sat through
    sweepLog,           \* what the last sweep decided, per evaluated room
    emptyAtQuery,       \* the rooms with an empty roster when line 605's query ran
    pinned,             \* rooms the last reclaim kept only because of their roster
    \* ---- server/server.ts, the processes of a sharded deployment ----
    numShards,          \* ecosystem.apps with env.SHARD (line 623)
    shard,              \* SpecFilter: this process's config.SHARD
    askedId,            \* SpecFilter: the room id looked at
    range,              \* SpecFilter: the letters of line 631's pattern
    answer,             \* SpecFilter: what /resolveShard sent
    shardPc,            \* per shard process: where init() is
    shardRooms,         \* per shard process: the keys of its Map `rooms`
    shardRows           \* the roomIds of table room, shared by the shards

syncVars == <<alive, creds, lastSubsDigest, currentSubsDigest, pc, subs, uidMap,
              idx, result, queue, txOpen, dbSubscriber, dbIsSubRoom, wSubscriber,
              wIsSubRoom, provider, started, lastDone, sameAsPrev, addedOne,
              failedPass>>

saveVars == <<savePc, saveLeft, saveLog>>

meterVars == <<meterPc, meterCur, meterLeft, expireTime, creator, redis,
               meterRuns, meterStart, meterHeld, meterFailed>>

roomVars == <<saveVars, meterVars, serverPc, postgres, rooms, roster, vBrowser, lastUpdateTime, now, due,
              currBatch, persisted, freePc, persistedSet, creating, visits,
              sweepLog, emptyAtQuery, pinned>>

shardVars == <<numShards, shard, askedId, range, answer, shardPc, shardRooms,
               shardRows>>

vars == <<syncVars, roomVars, shardVars>>

----------------------------------------------------------------------------
(* Bounds *)

\* passes that may be in flight at once (timer period 60 s, pass duration unbounded)
MaxInFlight == 2
\* passes the timer starts in one run
MaxPasses == 3

----------------------------------------------------------------------------
(* Values *)

Undefined == "undefined"
Null == "null"

Pass == 1..MaxInFlight

\* for (let i = 0; i < subs.length; i += 50)
BatchSize == 50

----------------------------------------------------------------------------
(* server/syncSubs.ts: the collaborators' data *)

\* getAllCustomers(): the billing provider's customers; c4 has no email
StripeCustomers ==
    { [id |-> "c1", email |-> "e1"], [id |-> "c2", email |-> "e2"],
      [id |-> "c3", email |-> "e3"], [id |-> "c4", email |-> Null] }

\* one element of getAllActiveSubscriptions(): {customer, status}
Sub(c, st) == [customer |-> c, status |-> st]

\* what getAllActiveSubscriptions() may return over one run: the provider's
\* state moves within one of these sets
ProviderRuns ==
    { \* subscriptions come and go
      { <<>>, <<Sub("c1", "active")>>, <<Sub("c1", "active"), Sub("c2", "active")>> },
      \* the provider lists the same subscriptions in another order
      { <<Sub("c1", "active"), Sub("c2", "active")>>,
        <<Sub("c2", "active"), Sub("c1", "active")>> },
      \* a subscription changes status
      { <<Sub("c1", "active")>>, <<Sub("c1", "trialing")>> },
      \* a subscriber without a resolvable identity appears
      { <<Sub("c1", "active")>>, <<Sub("c1", "active"), Sub("c3", "active")>>,
        <<Sub("c4", "active")>> } }

\* getUserByEmail(email): a user record, or null (found = FALSE) for an email
\* unknown to the identity provider, as e3 is
FirebaseUser(email) ==
    CASE email = "e1" -> [found |-> TRUE, email |-> "e1", uid |-> "u"]
      [] email = "e2" -> [found |-> TRUE, email |-> "e2", uid |-> "uu"]
      [] OTHER -> [found |-> FALSE, email |-> Undefined, uid |-> Undefined]

\* rows of table room: roomId -> owner
DbRooms == {"r1", "r2", "r3"}
RoomOwner == [r \in DbRooms |-> CASE r = "r1" -> "u" [] r = "r2" -> "uu" [] OTHER -> Null]

----------------------------------------------------------------------------
(* server/syncSubs.ts: pure parts of a pass *)

\* JavaScript truthiness of the values used here
Truthy(v) == v \notin {Undefined, Null, ""}

\* Map.prototype.get
MapGet(m, k) == IF k \in DOMAIN m THEN m[k] ELSE Undefined

\* lines 31-34: emailMap.set(cust.id, cust.email)
EmailMap ==
    [c \in {cust.id : cust \in StripeCustomers} |->
        (CHOOSE cust \in StripeCustomers : cust.id = c).email]

Min(a, b) == IF a < b THEN a ELSE b

\* lines 39-51: one batch of identity lookups, folded into uidMap
LookupBatch(m, ss, i) ==
    LET batch == SubSeq(ss, i + 1, Min(i + BatchSize, Len(ss)))
        \* .map(...).filter(Boolean): the subscriptions whose customer has an email
        emails == { MapGet(EmailMap, batch[k].customer) : k \in DOMAIN batch }
        asked == { e \in emails : Truthy(e) }
        \* uidMap.set(user?.email, user?.uid)
        KeyOf(e) == IF FirebaseUser(e).found THEN FirebaseUser(e).email ELSE Undefined
        ValOf(e) == IF FirebaseUser(e).found THEN FirebaseUser(e).uid ELSE Undefined
        keys == { KeyOf(e) : e \in asked }
    IN  [k \in DOMAIN m \cup keys |->
            IF k \in keys THEN ValOf(CHOOSE e \in asked : KeyOf(e) = k) ELSE m[k]]

\* lines 55-60: const result = subs.map(...)
MakeResult(ss, m) ==
    [k \in DOMAIN ss |->
        [customerId |-> ss[k].customer,
         email |-> MapGet(EmailMap, ss[k].customer),
         status |-> ss[k].status,
         uid |-> MapGet(m, MapGet(EmailMap, ss[k].customer))]]

\* the resolved-uid sequence of a result
Uids(res) == [k \in DOMAIN res |-> res[k].uid]

RECURSIVE Concat(_)
Concat(s) == IF s = <<>> THEN "" ELSE Head(s) \o Concat(Tail(s))

\* lines 63-68: md5 over the uids fed one after another: a function of their
\* concatenation (the hash sees one byte stream, not the row boundaries)
Digest(uids) == "md5:" \o Concat(uids)

\* line 66: hash.update(undefined) throws a TypeError
HashThrows(res) == \E k \in DOMAIN res : res[k].uid = Undefined

\* line 72
DigestChanged(cur, last) == cur /= last

----------------------------------------------------------------------------
(* server/syncSubs.ts: the connection postgres2 and the two tables *)

NoFlags == [r \in DbRooms |-> FALSE]

\* the tables as the next statement on postgres2 sees them
CurSubscriber == IF txOpen THEN wSubscriber ELSE dbSubscriber
CurIsSubRoom == IF txOpen THEN wIsSubRoom ELSE dbIsSubRoom

\* a statement's effect: inside the open transaction, else committed at once
WriteTables(newSub, newFlags) ==
    IF txOpen
    THEN /\ wSubscriber' = newSub
         /\ wIsSubRoom' = newFlags
         /\ UNCHANGED <<dbSubscriber, dbIsSubRoom>>
    ELSE /\ dbSubscriber' = newSub
         /\ dbIsSubRoom' = newFlags
         /\ UNCHANGED <<wSubscriber, wIsSubRoom>>

\* updateObject(postgres2, 'room', {isSubRoom: true}, {owner: uid})
FlagOwner(flags, uid) == [r \in DbRooms |-> IF RoomOwner[r] = uid THEN TRUE ELSE flags[r]]

RECURSIVE RowsToBag(_)
RowsToBag(res) ==
    IF res = <<>> THEN EmptyBag ELSE SetToBag({Head(res)}) (+) RowsToBag(Tail(res))

\* the tables after one whole, undisturbed transaction for `res`
PostSubscriber(res) == RowsToBag(res)
PostIsSubRoom(res) == [r \in DbRooms |-> \E k \in DOMAIN res : res[k].uid = RoomOwner[r]]

----------------------------------------------------------------------------
(* server/syncSubs.ts: syncSubscribers, one action per resumption *)

EmptyMap == [k \in {} |-> Undefined]

\* a pass is over: its locals are dropped
EndPass(p) ==
    /\ pc' = [pc EXCEPT ![p] = "idle"]
    /\ sameAsPrev' = [sameAsPrev EXCEPT ![p] = FALSE]
    /\ addedOne' = [addedOne EXCEPT ![p] = FALSE]
    /\ subs' = [subs EXCEPT ![p] = <<>>]
    /\ uidMap' = [uidMap EXCEPT ![p] = EmptyMap]
    /\ idx' = [idx EXCEPT ![p] = 0]
    /\ result' = [result EXCEPT ![p] = <<>>]

\* the first sequence with one uid inserted somewhere gives the second
OneAdded(prev, cur) ==
    /\ Len(cur) = Len(prev) + 1
    /\ \E k \in DOMAIN cur :
          prev = [j \in 1..Len(prev) |-> IF j < k THEN cur[j] ELSE cur[j + 1]]

OthersIdle(p) == \A q \in Pass \ {p} : pc[q] = "idle"

\* the promise of a pass rejected outside its try block: nothing handles it.
\* Node terminates the process (the default since Node 15) or only warns.
UnhandledRejection(p) ==
    /\ EndPass(p)
    /\ \/ /\ alive' = FALSE
          \* the connection closes: the server rolls the open transaction back
          /\ txOpen' = FALSE
          /\ wSubscriber' = EmptyBag
          /\ wIsSubRoom' = NoFlags
       \/ UNCHANGED <<alive, txOpen, wSubscriber, wIsSubRoom>>
    /\ UNCHANGED <<creds, lastSubsDigest, currentSubsDigest, queue, dbSubscriber,
                   dbIsSubRoom, provider, started, lastDone, sameAsPrev, addedOne,
                   failedPass>>

\* lines 54-72 and, when the digest is unchanged, line 94: runs without
\* suspension once the last lookup batch has resolved
AfterLookups(p, ss, m) ==
    LET res == MakeResult(ss, m)
        cur == Digest(Uids(res))
    IN  IF HashThrows(res)
        THEN UnhandledRejection(p)
        ELSE /\ currentSubsDigest' = cur
             /\ IF DigestChanged(cur, lastSubsDigest)
                THEN \* line 74 is issued; the pass waits for it
                     /\ sameAsPrev' = [sameAsPrev EXCEPT ![p] =
                            lastDone.valid /\ lastDone.seq = Uids(res) /\ OthersIdle(p)]
                     /\ addedOne' = [addedOne EXCEPT ![p] =
                            /\ lastDone.valid
                            /\ OneAdded(lastDone.seq, Uids(res))
                            /\ OthersIdle(p)]
                     /\ pc' = [pc EXCEPT ![p] = "begin"]
                     /\ queue' = Append(queue, p)
                     /\ subs' = [subs EXCEPT ![p] = <<>>]
                     /\ uidMap' = [uidMap EXCEPT ![p] = EmptyMap]
                     /\ idx' = [idx EXCEPT ![p] = 0]
                     /\ result' = [result EXCEPT ![p] = res]
                     /\ UNCHANGED <<lastSubsDigest, lastDone>>
                ELSE \* line 94
                     /\ lastSubsDigest' = cur
                     /\ lastDone' = [valid |-> TRUE, seq |-> Uids(res)]
                     /\ EndPass(p)
                     /\ UNCHANGED queue
             /\ UNCHANGED <<alive, creds, txOpen, dbSubscriber, dbIsSubRoom,
                            wSubscriber, wIsSubRoom, provider, started, failedPass>>

\* a faulty variant of line 21: the guard never returns
CredsAbsentIgnored == FALSE

\* line 21: !config.STRIPE_SECRET_KEY || !config.FIREBASE_ADMIN_SDK_CONFIG
CredsAbsent == ~creds

\* line 18: the timer calls syncSubscribers, whatever the earlier passes do;
\* lines 21-29
Timer(p) ==
    /\ UNCHANGED <<roomVars, shardVars>>
    /\ alive
    /\ pc[p] = "idle"
    /\ \A q \in Pass : q < p => pc[q] /= "idle"
    /\ started < MaxPasses
    /\ started' = started + 1
    /\ IF CredsAbsent
       THEN UNCHANGED <<alive, creds, lastSubsDigest, currentSubsDigest, pc, subs,
                        uidMap, idx, result, queue, txOpen, dbSubscriber, dbIsSubRoom,
                        wSubscriber, wIsSubRoom, provider, lastDone, sameAsPrev,
                        addedOne, failedPass>>
       ELSE /\ pc' = [pc EXCEPT ![p] = "fetch"]
            /\ UNCHANGED <<alive, creds, lastSubsDigest, currentSubsDigest, subs,
                           uidMap, idx, result, queue, txOpen, dbSubscriber, dbIsSubRoom,
                           wSubscriber, wIsSubRoom, provider, lastDone, sameAsPrev,
                           addedOne, failedPass>>

\* lines 26-37: the billing provider answers
StripeReturns(p) ==
    /\ UNCHANGED <<roomVars, shardVars>>
    /\ alive
    /\ pc[p] = "fetch"
    /\ \E ss \in provider :
          IF 0 < Len(ss)
          THEN /\ pc' = [pc EXCEPT ![p] = "lookup"]
               /\ subs' = [subs EXCEPT ![p] = ss]
               /\ idx' = [idx EXCEPT ![p] = 0]
               /\ UNCHANGED <<alive, creds, lastSubsDigest, currentSubsDigest,
                              uidMap, result, queue, txOpen, dbSubscriber, dbIsSubRoom,
                              wSubscriber, wIsSubRoom, provider, started, lastDone,
                              sameAsPrev, addedOne, failedPass>>
          ELSE AfterLookups(p, ss, EmptyMap)

\* lines 37-52: a batch of identity lookups resolves
FirebaseReturns(p) ==
    /\ UNCHANGED <<roomVars, shardVars>>
    /\ alive
    /\ pc[p] = "lookup"
    /\ LET m == LookupBatch(uidMap[p], subs[p], idx[p])
           i == idx[p] + BatchSize
       IN  IF i < Len(subs[p])
           THEN /\ uidMap' = [uidMap EXCEPT ![p] = m]
                /\ idx' = [idx EXCEPT ![p] = i]
                /\ UNCHANGED <<alive, creds, lastSubsDigest, currentSubsDigest, pc,
                               subs, result, queue, txOpen, dbSubscriber, dbIsSubRoom,
                               wSubscriber, wIsSubRoom, provider, started, lastDone,
                               sameAsPrev, addedOne, failedPass>>
           ELSE AfterLookups(p, subs[p], m)

\* lines 26-48: a provider call rejects
ExternalCallFails(p) ==
    /\ UNCHANGED <<roomVars, shardVars>>
    /\ alive
    /\ pc[p] \in {"fetch", "lookup"}
    /\ UnhandledRejection(p)

TxPcs == {"begin", "delete", "clear", "insert", "flag", "commit"}

\* the statement at the head of the queue is the one the server runs
Running(p) == queue /= <<>> /\ Head(queue) = p

\* a statement of pass p ran and the pass issued its next one; nothing else
\* of the pass changes but its position
Advance(p, next, i) ==
    /\ pc' = [pc EXCEPT ![p] = next]
    /\ idx' = [idx EXCEPT ![p] = i]
    /\ queue' = Append(Tail(queue), p)
    /\ UNCHANGED <<alive, creds, lastSubsDigest, currentSubsDigest, subs, uidMap,
                   result, provider, started, lastDone, sameAsPrev, addedOne,
                   failedPass>>

\* line 74: BEGIN TRANSACTION; inside a transaction the server only warns
ExecBegin(p) ==
    /\ UNCHANGED <<roomVars, shardVars>>
    /\ alive
    /\ pc[p] = "begin"
    /\ Running(p)
    /\ IF txOpen
       THEN UNCHANGED <<txOpen, wSubscriber, wIsSubRoom>>
       ELSE /\ txOpen' = TRUE
            /\ wSubscriber' = dbSubscriber
            /\ wIsSubRoom' = dbIsSubRoom
    /\ UNCHANGED <<dbSubscriber, dbIsSubRoom>>
    /\ Advance(p, "delete", 0)

\* line 75: DELETE FROM subscriber
ExecDelete(p) ==
    /\ UNCHANGED <<roomVars, shardVars>>
    /\ alive
    /\ pc[p] = "delete"
    /\ Running(p)
    /\ WriteTables(EmptyBag, CurIsSubRoom)
    /\ UNCHANGED txOpen
    /\ Advance(p, "clear", 0)

\* line 76: UPDATE room SET "isSubRoom" = false; then line 77
ExecClear(p) ==
    /\ UNCHANGED <<roomVars, shardVars>>
    /\ alive
    /\ pc[p] = "clear"
    /\ Running(p)
    /\ WriteTables(CurSubscriber, NoFlags)
    /\ UNCHANGED txOpen
    /\ Advance(p, IF 0 < Len(result[p]) THEN "insert" ELSE "commit", 0)

\* line 79: insertObject(postgres2, 'subscriber', row)
ExecInsert(p) ==
    /\ UNCHANGED <<roomVars, shardVars>>
    /\ alive
    /\ pc[p] = "insert"
    /\ Running(p)
    /\ WriteTables(CurSubscriber (+) SetToBag({result[p][idx[p] + 1]}), CurIsSubRoom)
    /\ UNCHANGED txOpen
    /\ Advance(p, "flag", idx[p])

\* lines 80-85: updateObject(...); then line 77
ExecFlag(p) ==
    /\ UNCHANGED <<roomVars, shardVars>>
    /\ alive
    /\ pc[p] = "flag"
    /\ Running(p)
    /\ WriteTables(CurSubscriber, FlagOwner(CurIsSubRoom, result[p][idx[p] + 1].uid))
    /\ UNCHANGED txOpen
    /\ Advance(p, IF idx[p] + 1 < Len(result[p]) THEN "insert" ELSE "commit", idx[p] + 1)

\* line 87: COMMIT; outside a transaction the server only warns.
\* Lines 88-95 follow once it resolved.
ExecCommit(p) ==
    /\ UNCHANGED <<roomVars, shardVars>>
    /\ alive
    /\ pc[p] = "commit"
    /\ Running(p)
    /\ IF txOpen
       THEN /\ dbSubscriber' = wSubscriber
            /\ dbIsSubRoom' = wIsSubRoom
            /\ txOpen' = FALSE
            /\ wSubscriber' = EmptyBag
            /\ wIsSubRoom' = NoFlags
       ELSE UNCHANGED <<txOpen, dbSubscriber, dbIsSubRoom, wSubscriber, wIsSubRoom>>
    /\ queue' = Tail(queue)
    /\ lastSubsDigest' = currentSubsDigest
    /\ lastDone' = [valid |-> TRUE, seq |-> Uids(result[p])]
    /\ EndPass(p)
    /\ UNCHANGED <<alive, creds, currentSubsDigest, provider, started, failedPass>>

\* a catch block that logs and falls through to line 94
OnStatementErrorSwallowed(p) ==
    /\ failedPass' = p
    /\ lastSubsDigest' = currentSubsDigest
    /\ lastDone' = [valid |-> TRUE, seq |-> Uids(result[p])]
    /\ EndPass(p)
    /\ queue' = Tail(queue)
    /\ UNCHANGED <<alive, creds, currentSubsDigest, txOpen, dbSubscriber, dbIsSubRoom,
                   wSubscriber, wIsSubRoom, provider, started>>

\* lines 89-92: catch (e) { console.error(e); process.exit(1); }
\* the connection closes with the process and the server rolls back
OnStatementError(p) ==
    /\ failedPass' = p
    /\ alive' = FALSE
    /\ txOpen' = FALSE
    /\ wSubscriber' = EmptyBag
    /\ wIsSubRoom' = NoFlags
    /\ UNCHANGED <<creds, lastSubsDigest, currentSubsDigest, pc, subs, uidMap, idx,
                   result, queue, dbSubscriber, dbIsSubRoom, provider, started, lastDone,
                   sameAsPrev, addedOne>>

\* lines 73-87: a statement of the pass is rejected by the server or the connection
StatementFails(p) ==
    /\ UNCHANGED <<roomVars, shardVars>>
    /\ alive
    /\ pc[p] \in TxPcs
    /\ Running(p)
    /\ OnStatementError(p)

----------------------------------------------------------------------------
(* server/server.ts: one server process.                                   *)
(*                                                                         *)
(* A room id is the sequence of its characters' codes, so that what the    *)
(* code computes from an id (its hash, its leading letter) is computed.    *)
(* Every handler runs to its next await in one step: release is            *)
(* synchronous throughout, freeUnusedRooms and /createRoom are cut at      *)
(* their awaits.                                                           *)

\* "/a", "/b", "/g", "/q" and "/default"
RoomA == <<47, 97>>
RoomB == <<47, 98>>
RoomG == <<47, 103>>
RoomQ == <<47, 113>>
DefaultRoom == <<47, 100, 101, 102, 97, 117, 108, 116>>

AllIds == {RoomA, RoomB, RoomG, RoomQ, DefaultRoom}

releaseInterval == 300000
releaseBatches == 10

\* the period of the release timer, ms
ReleasePeriod == releaseInterval \div releaseBatches

\* the clock when the process started
launchTime == 1800000

\* the clock stops after this many periods of the release timer
MaxTicks == 21

\* sessions are assigned and rooms saved during the first periods only
MaxEnvTicks == 1

\* participants one room can hold
MaxRoster == 1

\* hashString: a non-negative integer that depends on the id only
RECURSIVE hashString(_)
hashString(s) == IF s = <<>> THEN 0 ELSE Head(s) + hashString(Tail(s))

\* getSessionLimitSeconds: the allotted seconds of a standard and of a large
\* session
StandardLimitSeconds == 330
LargeLimitSeconds == 630
getSessionLimitSeconds(large) ==
    IF large THEN LargeLimitSeconds ELSE StandardLimitSeconds

NoVBrowser == [set |-> FALSE, assignTime |-> 0, large |-> FALSE]

\* the filter of release's first statement
InBatch(id, batch) == hashString(id) % releaseBatches = batch

\* a faulty variant of line 566: the batch index skips a batch
NextBatchSkips(batch) == (batch + 2) % releaseBatches

\* line 566
NextBatch(batch) == (batch + 1) % releaseBatches

\* room.vBrowser && room.vBrowser.assignTime
HasSession(id) == vBrowser[id].set /\ vBrowser[id].assignTime /= 0

Ttl(id) ==
    LET maxTime == getSessionLimitSeconds(vBrowser[id].large) * 1000
        elapsed == now - vBrowser[id].assignTime
    IN  maxTime - elapsed

\* ttl && ttl < releaseInterval: 0 is falsy
IsTimedOut(ttl) == ttl /= 0 /\ ttl < releaseInterval
IsAlmostTimedOut(ttl) == ttl /= 0 /\ ttl < releaseInterval * 2
IsRoomEmpty(id) == roster[id] = 0
IsRoomIdle(id) == now - lastUpdateTime[id] > 5 * 60 * 1000

\* a faulty variant of line 542: only a timed-out session is released
ShouldReleaseTimedOutOnly(id) == IsTimedOut(Ttl(id))

\* the condition of line 541
ShouldRelease(id) ==
    IsTimedOut(Ttl(id)) \/ (IsRoomEmpty(id) /\ IsRoomIdle(id))

\* the chat message and the counter of one evaluated room
ChatCmd(id) ==
    IF ShouldRelease(id)
    THEN IF IsTimedOut(Ttl(id)) THEN "vBrowserTimeout" ELSE "none"
    ELSE IF IsAlmostTimedOut(Ttl(id)) THEN "vBrowserAlmostTimeout" ELSE "none"

\* a faulty variant of lines 545-555: the empty room is looked at first
CounterEmptyFirst(id) ==
    IF ~ShouldRelease(id) THEN "none"
    ELSE IF IsRoomEmpty(id) THEN "vBrowserTerminateEmpty"
    ELSE "vBrowserTerminateTimeout"

Counter(id) ==
    IF ~ShouldRelease(id) THEN "none"
    ELSE IF IsTimedOut(Ttl(id)) THEN "vBrowserTerminateTimeout"
    ELSE IF IsRoomEmpty(id) THEN "vBrowserTerminateEmpty" ELSE "none"

\* the last releaseBatches entries of a history
Window(w) ==
    IF Len(w) > releaseBatches THEN SubSeq(w, 2, Len(w)) ELSE w

\* a promise rejects and nothing handles it: depending on the Node version
\* the process exits, or warns and goes on from `onward`
UnhandledRejectionOf(onward) == serverPc' \in {"exited", onward}

\* the release timer fires, `elapsed` ms after it fired last
ReleaseTimer(elapsed) ==
    /\ serverPc = "up"
    /\ ~due
    /\ now + elapsed <= launchTime + MaxTicks * ReleasePeriod
    /\ due' = TRUE
    /\ now' = now + elapsed
    /\ UNCHANGED <<syncVars, shardVars, saveVars, meterVars>>
    /\ UNCHANGED <<serverPc, postgres, rooms, roster, vBrowser, lastUpdateTime,
                   currBatch, persisted, freePc, persistedSet, creating,
                   visits, sweepLog, emptyAtQuery, pinned>>

\* release(), lines 523-567
Release ==
    /\ serverPc = "up"
    /\ due
    /\ due' = FALSE
    /\ LET roomArr == {id \in rooms : InBatch(id, currBatch)}
           held == {id \in roomArr : HasSession(id)}
           stopped == {id \in held : ShouldRelease(id)}
       IN  /\ vBrowser' = [id \in AllIds |->
                              IF id \in stopped THEN NoVBrowser
                              ELSE vBrowser[id]]
           /\ sweepLog' = {[room |-> id, ttl |-> Ttl(id),
                            empty |-> IsRoomEmpty(id), idle |-> IsRoomIdle(id),
                            chat |-> ChatCmd(id), count |-> Counter(id),
                            raised |-> FALSE] :
                           id \in held}
           /\ visits' = [id \in AllIds |->
                            IF id \in rooms
                            THEN Window(Append(visits[id], id \in roomArr))
                            ELSE <<>>]
    /\ currBatch' = NextBatch(currBatch)
    /\ UNCHANGED <<syncVars, shardVars, saveVars, meterVars>>
    /\ UNCHANGED <<serverPc, postgres, rooms, roster, lastUpdateTime, now, persisted,
                   freePc, persistedSet, creating, emptyAtQuery, pinned>>

\* release() when room.addChatMessage (line 545 or 557) raises for the room
\* `thrower`, the loop having gone through the rooms `before`: the loop has
\* no try, so the rest of roomArr is not looked at and line 566 is not
\* reached; release() rejects and nothing handles it
ReleaseRaises(thrower, before) ==
    /\ serverPc = "up"
    /\ due
    /\ due' = FALSE
    /\ LET roomArr == {id \in rooms : InBatch(id, currBatch)}
           held == {id \in roomArr : HasSession(id)}
       IN  /\ thrower \in held
           /\ ChatCmd(thrower) /= "none"
           /\ before \subseteq roomArr \ {thrower}
           /\ LET done == before \cap held
                  stopped == {id \in done \cup {thrower} : ShouldRelease(id)}
              IN  /\ vBrowser' = [id \in AllIds |->
                                     IF id \in stopped THEN NoVBrowser
                                     ELSE vBrowser[id]]
                  /\ sweepLog' =
                       {[room |-> id, ttl |-> Ttl(id),
                         empty |-> IsRoomEmpty(id), idle |-> IsRoomIdle(id),
                         chat |-> ChatCmd(id), count |-> Counter(id),
                         raised |-> FALSE] : id \in done}
                       \cup
                       {[room |-> thrower, ttl |-> Ttl(thrower),
                         empty |-> IsRoomEmpty(thrower),
                         idle |-> IsRoomIdle(thrower),
                         chat |-> "none", count |-> "none",
                         raised |-> TRUE]}
           /\ visits' = [id \in AllIds |->
                            IF id \in rooms
                            THEN Window(Append(visits[id], id \in roomArr))
                            ELSE <<>>]
    /\ UnhandledRejectionOf("up")
    /\ UNCHANGED <<syncVars, shardVars, saveVars, meterVars>>
    /\ UNCHANGED <<postgres, rooms, roster, lastUpdateTime, now, currBatch,
                   persisted, freePc, persistedSet, creating, emptyAtQuery,
                   pinned>>

\* the clock is within the periods in which sessions are assigned and rooms
\* saved
EnvWindow == now <= launchTime + MaxEnvTicks * ReleasePeriod

\* a participant joins a room of the registry
Join(id) ==
    /\ serverPc = "up"
    /\ id \in rooms
    /\ roster[id] < MaxRoster
    /\ roster' = [roster EXCEPT ![id] = @ + 1]
    /\ UNCHANGED <<syncVars, shardVars, saveVars, meterVars>>
    /\ UNCHANGED <<serverPc, postgres, rooms, vBrowser, lastUpdateTime, now, due,
                   currBatch, persisted, freePc, persistedSet, creating,
                   visits, sweepLog, emptyAtQuery, pinned>>

\* a participant leaves
Leave(id) ==
    /\ serverPc = "up"
    /\ id \in rooms
    /\ roster[id] > 0
    /\ roster' = [roster EXCEPT ![id] = @ - 1]
    /\ UNCHANGED <<syncVars, shardVars, saveVars, meterVars>>
    /\ UNCHANGED <<serverPc, postgres, rooms, vBrowser, lastUpdateTime, now, due,
                   currBatch, persisted, freePc, persistedSet, creating,
                   visits, sweepLog, emptyAtQuery, pinned>>

\* a vBrowser session is assigned to a room that has none
AssignVBrowser(id, large) ==
    /\ serverPc = "up"
    /\ id \in rooms
    /\ EnvWindow
    /\ ~vBrowser[id].set
    /\ vBrowser' = [vBrowser EXCEPT
                       ![id] = [set |-> TRUE, assignTime |-> now, large |-> large]]
    /\ UNCHANGED <<syncVars, shardVars, saveVars, meterVars>>
    /\ UNCHANGED <<serverPc, postgres, rooms, roster, lastUpdateTime, now, due,
                   currBatch, persisted, freePc, persistedSet, creating,
                   visits, sweepLog, emptyAtQuery, pinned>>

\* room.saveRoom() of a room that saveRooms found occupied (lines 512-514):
\* the room's stamp is renewed and its row written
SaveRoom(id) ==
    /\ serverPc = "up"
    /\ id \in rooms
    /\ EnvWindow
    /\ roster[id] > 0
    /\ lastUpdateTime' = [lastUpdateTime EXCEPT ![id] = now]
    /\ persisted' = IF postgres THEN persisted \cup {id} ELSE persisted
    /\ UNCHANGED <<syncVars, shardVars, saveVars, meterVars>>
    /\ UNCHANGED <<serverPc, postgres, rooms, roster, vBrowser, now, due, currBatch,
                   freePc, persistedSet, creating, visits, sweepLog,
                   emptyAtQuery, pinned>>

\* getAllRooms (lines 617-640) in a process without config.SHARD: every row
\* whose id starts with '/', nothing without a database
GetAllRooms == IF postgres THEN {id \in persisted : Head(id) = 47} ELSE {}

\* freeUnusedRooms up to its await (line 605): the query runs
FreeQuery ==
    /\ serverPc = "up"
    /\ freePc = "idle"
    /\ freePc' = "reply"
    /\ persistedSet' = GetAllRooms
    /\ emptyAtQuery' = {id \in rooms : roster[id] = 0}
    /\ pinned' = {}
    /\ UNCHANGED <<syncVars, shardVars, saveVars, meterVars>>
    /\ UNCHANGED <<serverPc, postgres, rooms, roster, vBrowser, lastUpdateTime, now,
                   due, currBatch, persisted, creating, visits, sweepLog>>

\* a faulty variant of line 608: the roster as it was when the query ran
RosterWasEmpty(id) == id \in emptyAtQuery

\* the roster test of line 608
RosterIsEmpty(id) == roster[id] = 0

\* freeUnusedRooms after its await (lines 606-614)
FreeFinish ==
    /\ serverPc = "up"
    /\ freePc = "reply"
    /\ freePc' = "idle"
    /\ LET gone == {id \in rooms :
                       RosterIsEmpty(id) /\ id \notin persistedSet}
       IN  /\ rooms' = rooms \ gone
           /\ vBrowser' = [id \in AllIds |->
                              IF id \in gone THEN NoVBrowser ELSE vBrowser[id]]
           /\ visits' = [id \in AllIds |->
                            IF id \in gone THEN <<>> ELSE visits[id]]
           /\ pinned' = {id \in (rooms \ gone) \cap emptyAtQuery :
                            id \notin persistedSet}
    /\ persistedSet' = {}
    /\ emptyAtQuery' = {}
    /\ UNCHANGED <<syncVars, shardVars, saveVars, meterVars>>
    /\ UNCHANGED <<serverPc, postgres, roster, lastUpdateTime, now, due, currBatch,
                   persisted, creating, sweepLog>>

\* /createRoom up to its await of line 268: a name that no room of the
\* registry has, and the row's insert, which may fail (line 264)
CreateStart(id) ==
    /\ serverPc = "up"
    /\ id \notin rooms \cup creating
    /\ creating' = creating \cup {id}
    /\ \/ /\ postgres
          /\ id \notin persisted
          /\ persisted' = persisted \cup {id}
       \/ /\ UNCHANGED persisted
    /\ UNCHANGED <<syncVars, shardVars, saveVars, meterVars>>
    /\ UNCHANGED <<serverPc, postgres, rooms, roster, vBrowser, lastUpdateTime, now,
                   due, currBatch, freePc, persistedSet, visits, sweepLog,
                   emptyAtQuery, pinned>>

\* /createRoom from line 269: rooms.set(name, newRoom)
CreateRegister(id) ==
    /\ serverPc = "up"
    /\ id \in creating
    /\ creating' = creating \ {id}
    /\ rooms' = rooms \cup {id}
    /\ roster' = [roster EXCEPT ![id] = 0]
    /\ vBrowser' = [vBrowser EXCEPT ![id] = NoVBrowser]
    /\ visits' = [visits EXCEPT ![id] = <<>>]
    /\ UNCHANGED <<syncVars, shardVars, saveVars, meterVars>>
    /\ UNCHANGED <<serverPc, postgres, lastUpdateTime, now, due, currBatch, persisted,
                   freePc, persistedSet, sweepLog, emptyAtQuery, pinned>>

\* a row of table room is deleted (by its owner, or by the cleanup of rooms
\* that were not used for long)
DeleteRow(id) ==
    /\ postgres
    /\ id \in persisted
    /\ persisted' = persisted \ {id}
    /\ UNCHANGED <<syncVars, shardVars, saveVars, meterVars>>
    /\ UNCHANGED <<serverPc, postgres, rooms, roster, vBrowser, lastUpdateTime, now,
                   due, currBatch, freePc, persistedSet, creating, visits,
                   sweepLog, emptyAtQuery, pinned>>

\* init() up to its await (lines 67-70); without a database it runs through
\* (lines 83-92): '/default', listen, the timers, saveRooms
InitBegin ==
    /\ serverPc = "init"
    /\ IF postgres
       THEN /\ serverPc' = "loading"
            /\ UNCHANGED rooms
       ELSE /\ serverPc' = "up"
            /\ rooms' = {DefaultRoom}
    /\ UNCHANGED <<syncVars, shardVars, saveVars, meterVars>>
    /\ UNCHANGED <<postgres, roster, vBrowser, lastUpdateTime, now, due,
                   currBatch, persisted, freePc, persistedSet, creating,
                   visits, sweepLog, emptyAtQuery, pinned>>

\* init() after its await (lines 71-92): the rows become rooms, then
\* '/default', listen, the timers, saveRooms
InitLoaded ==
    /\ serverPc = "loading"
    /\ serverPc' = "up"
    /\ rooms' = GetAllRooms \cup {DefaultRoom}
    /\ UNCHANGED <<syncVars, shardVars, saveVars, meterVars>>
    /\ UNCHANGED <<postgres, roster, vBrowser, lastUpdateTime, now, due,
                   currBatch, persisted, freePc, persistedSet, creating,
                   visits, sweepLog, emptyAtQuery, pinned>>

\* the query of line 636 fails: getAllRooms rejects, and so does init() at
\* line 70, which nothing catches; lines 71-92 do not run
InitQueryFails ==
    /\ serverPc = "loading"
    /\ UnhandledRejectionOf("rejected")
    /\ UNCHANGED <<syncVars, shardVars, saveVars, meterVars>>
    /\ UNCHANGED <<postgres, rooms, roster, vBrowser, lastUpdateTime, now, due,
                   currBatch, persisted, freePc, persistedSet, creating,
                   visits, sweepLog, emptyAtQuery, pinned>>

\* the state of a process that serves no room
\* the roster test of line 512 (a faulty variant: every room is saved)
SaveWantedAlways(id) == TRUE

\* the roster test of line 512
SaveWanted(id) == roster[id] > 0

\* the variables of one process that neither saveRooms nor minuteMetrics
\* nor the clock nor a session changes
coreVars == <<serverPc, postgres, rooms, roster, lastUpdateTime, due,
              currBatch, persisted, freePc, persistedSet, creating, visits,
              sweepLog, emptyAtQuery, pinned>>

\* saveRooms, line 511: an iteration starts with the rooms of the registry
SaveLoopBegin ==
    /\ serverPc = "up"
    /\ savePc = "sleep"
    /\ savePc' = "loop"
    /\ saveLeft' = rooms
    /\ saveLog' = {}
    /\ UNCHANGED <<syncVars, shardVars, coreVars, vBrowser, now, meterVars>>

\* saveRooms, lines 512-514: the loop comes to room id of roomArr; an
\* occupied room is saved (room.saveRoom() renews the room's stamp and
\* writes its row), an empty one is passed over
SaveVisit(id) ==
    /\ serverPc = "up"
    /\ savePc = "loop"
    /\ id \in saveLeft
    /\ saveLeft' = saveLeft \ {id}
    /\ saveLog' = saveLog \cup {[room |-> id, saved |-> SaveWanted(id)]}
    /\ IF SaveWanted(id)
       THEN /\ lastUpdateTime' = [lastUpdateTime EXCEPT ![id] = now]
            /\ persisted' = IF postgres THEN persisted \cup {id} ELSE persisted
       ELSE UNCHANGED <<lastUpdateTime, persisted>>
    /\ UNCHANGED <<syncVars, shardVars, savePc, meterVars>>
    /\ UNCHANGED <<serverPc, postgres, rooms, roster, vBrowser, now, due,
                   currBatch, freePc, persistedSet, creating, visits,
                   sweepLog, emptyAtQuery, pinned>>

\* saveRooms, lines 515-518: roomArr is done, the loop sleeps a second
SaveLoopEnd ==
    /\ serverPc = "up"
    /\ savePc = "loop"
    /\ saveLeft = {}
    /\ savePc' = "sleep"
    /\ UNCHANGED <<syncVars, shardVars, coreVars, vBrowser, now, saveLeft, saveLog,
                   meterVars>>

\* saveRooms, line 513, when room.saveRoom() of the occupied room id
\* rejects: the await is in no try, so saveRooms rejects, its while loop is
\* over and nothing handles the rejection
SaveVisitRaises(id) ==
    /\ serverPc = "up"
    /\ savePc = "loop"
    /\ id \in saveLeft
    /\ SaveWanted(id)
    /\ savePc' = "over"
    /\ saveLeft' = {}
    /\ UnhandledRejectionOf("up")
    /\ UNCHANGED <<syncVars, shardVars, meterVars, saveLog, vBrowser, now>>
    /\ UNCHANGED <<postgres, rooms, roster, lastUpdateTime, due, currBatch,
                   persisted, freePc, persistedSet, creating, visits, sweepLog,
                   emptyAtQuery, pinned>>

\* ---------------------------------------------------------------------
\* minuteMetrics (server.ts 569-600): the renewal of the session locks
\* and the usage counters, over the key/TTL store
\* ---------------------------------------------------------------------

\* line 89: setInterval(minuteMetrics, 60 * 1000), in ms
MetricsPeriod == 60000

\* line 576-577: the seconds the provider lock is renewed to
ProviderLockTtl == 300

\* a faulty variant of line 579: the lock lives as long as one period
UidLockTtlOfPeriod == MetricsPeriod \div 1000

\* line 579: the seconds the creator-uid lock is renewed to
UidLockTtl == 120

\* line 581: the seconds of a day
DaySeconds == 86400

\* the runs of minuteMetrics a behaviour holds
MaxMeterRuns == 3

\* getStartOfDay(): the first ms of the day of `t`
getStartOfDay(t) == t - (t % (DaySeconds * 1000))

\* a faulty variant of line 581: the day's first second
ExpireTimeAtStartOfDay(t) == getStartOfDay(t) \div 1000

\* line 581: getStartOfDay() / 1000 + 86400
ExpireTimeAt(t) == getStartOfDay(t) \div 1000 + DaySeconds

\* the store before any session: no lock, no counter
NoRedis ==
    [lock |-> [id \in AllIds |-> 0],
     uidLock |-> [id \in AllIds |-> 0],
     clientMinutes |-> [id \in AllIds |-> 0],
     uidMinutes |-> [id \in AllIds |-> 0],
     clientExpiry |-> 0,
     uidExpiry |-> 0]

\* EXPIRE key seconds: a key that is gone stays gone
Expire(remaining, seconds) == IF remaining > 0 THEN seconds ELSE 0

\* the store `elapsed` ms later, the clock at `t`: the locks have run down
\* and a counter set whose expiry has come is gone
Elapse(r, elapsed, t) ==
    LET run(f) == [id \in AllIds |->
                     IF f[id] > elapsed \div 1000 THEN f[id] - elapsed \div 1000 ELSE 0]
        gone(exp) == exp /= 0 /\ exp * 1000 <= t
    IN  [lock |-> run(r.lock),
         uidLock |-> run(r.uidLock),
         clientMinutes |-> IF gone(r.clientExpiry) THEN NoRedis.clientMinutes
                           ELSE r.clientMinutes,
         uidMinutes |-> IF gone(r.uidExpiry) THEN NoRedis.uidMinutes
                        ELSE r.uidMinutes,
         clientExpiry |-> IF gone(r.clientExpiry) THEN 0 ELSE r.clientExpiry,
         uidExpiry |-> IF gone(r.uidExpiry) THEN 0 ELSE r.uidExpiry]

\* line 89 and lines 570-571: the timer fires a period after the run
\* before, which is over, and the run takes the rooms of the registry
MetricsTimer ==
    /\ serverPc = "up"
    /\ meterPc = "next"
    /\ meterLeft = {}
    /\ meterRuns < MaxMeterRuns
    /\ meterRuns' = meterRuns + 1
    /\ now' = now + MetricsPeriod
    /\ redis' = Elapse(redis, MetricsPeriod, now')
    /\ meterLeft' = rooms
    /\ UNCHANGED <<syncVars, shardVars, coreVars, saveVars, vBrowser>>
    /\ UNCHANGED <<meterPc, meterCur, expireTime, creator, meterStart, meterHeld, meterFailed>>

\* lines 572-577: the run comes to room id; with a session that has an
\* id, the provider lock is renewed and the run awaits the store
MeterVisit(id) ==
    /\ serverPc = "up"
    /\ meterPc = "next"
    /\ id \in meterLeft
    /\ meterLeft' = meterLeft \ {id}
    /\ IF vBrowser[id].set
       THEN /\ redis' = [redis EXCEPT
                           !.lock[id] = Expire(redis.lock[id], ProviderLockTtl)]
            /\ meterPc' = "uidLock"
            /\ meterCur' = id
            /\ meterStart' = redis
            /\ meterHeld' = TRUE
       ELSE UNCHANGED <<redis, meterPc, meterCur, meterStart, meterHeld, meterFailed>>
    /\ UNCHANGED <<syncVars, shardVars, coreVars, saveVars, vBrowser, now>>
    /\ UNCHANGED <<expireTime, creator, meterRuns, meterFailed>>

\* lines 578-597: the store has answered; the run goes on to its next
\* await, the call it makes there done by the store
MeterStep ==
    LET id == meterCur
        uid == vBrowser[id].set /\ creator[id].uid
        clientId == vBrowser[id].set /\ creator[id].clientId
        IncrUid == /\ redis' = [redis EXCEPT !.uidMinutes[id] = @ + 1]
                   /\ meterPc' = "uidExp"
    IN  /\ serverPc = "up"
        /\ meterPc /= "next"
        /\ CASE meterPc = "uidLock" ->
                  \* line 579
                  /\ redis' = [redis EXCEPT
                                 !.uidLock[id] = IF uid THEN Expire(@, UidLockTtl)
                                                 ELSE @]
                  /\ meterPc' = "client"
                  /\ UNCHANGED expireTime
             [] meterPc = "client" ->
                  \* lines 581-584, and 590-592 for a session without client id
                  /\ expireTime' = ExpireTimeAt(now)
                  /\ IF clientId
                     THEN /\ redis' = [redis EXCEPT !.clientMinutes[id] = @ + 1]
                          /\ meterPc' = "clientExp"
                     ELSE IF uid THEN IncrUid
                     ELSE UNCHANGED redis /\ meterPc' = "next"
             [] meterPc = "clientExp" ->
                  \* lines 585-589
                  /\ redis' = [redis EXCEPT !.clientExpiry = expireTime]
                  /\ meterPc' = "uid"
                  /\ UNCHANGED expireTime
             [] meterPc = "uid" ->
                  \* lines 590-592
                  /\ IF uid THEN IncrUid
                     ELSE UNCHANGED redis /\ meterPc' = "next"
                  /\ UNCHANGED expireTime
             [] meterPc = "uidExp" ->
                  \* lines 593-597
                  /\ redis' = [redis EXCEPT !.uidExpiry = expireTime]
                  /\ meterPc' = "next"
                  /\ UNCHANGED expireTime
        /\ UNCHANGED <<syncVars, shardVars, coreVars, saveVars, vBrowser, now>>
        /\ UNCHANGED <<meterCur, meterLeft, creator, meterRuns, meterStart, meterHeld, meterFailed>>

\* a call of lines 574-596 is rejected by the store: nothing catches it,
\* the run of minuteMetrics ends there
MeterFails ==
    /\ meterPc /= "next"
    /\ serverPc = "up"
    /\ UnhandledRejectionOf("up")
    /\ meterPc' = "next"
    /\ meterLeft' = {}
    /\ UNCHANGED <<syncVars, shardVars, saveVars, vBrowser, now>>
    /\ UNCHANGED <<postgres, rooms, roster, lastUpdateTime,
                   due, currBatch, persisted, freePc, persistedSet, creating,
                   visits, sweepLog, emptyAtQuery, pinned>>
    /\ meterFailed' = meterFailed \cup {meterCur}
    /\ UNCHANGED <<meterCur, expireTime, creator, redis, meterRuns, meterStart, meterHeld>>

\* a session is assigned to a room that has none: its locks are taken
SessionStart(id) ==
    /\ serverPc = "up"
    /\ id \in rooms
    /\ ~vBrowser[id].set
    /\ vBrowser' = [vBrowser EXCEPT
                       ![id] = [set |-> TRUE, assignTime |-> now, large |-> FALSE]]
    /\ redis' = [redis EXCEPT
                    !.lock[id] = ProviderLockTtl,
                    !.uidLock[id] = IF creator[id].uid THEN UidLockTtl ELSE 0]
    /\ UNCHANGED <<syncVars, shardVars, coreVars, saveVars, now>>
    /\ UNCHANGED <<meterPc, meterCur, meterLeft, expireTime, creator, meterRuns,
                   meterStart, meterHeld, meterFailed>>

\* the session of a room is stopped: its locks are given back
SessionStop(id) ==
    /\ serverPc = "up"
    /\ vBrowser[id].set
    /\ vBrowser' = [vBrowser EXCEPT ![id] = NoVBrowser]
    /\ redis' = [redis EXCEPT !.lock[id] = 0, !.uidLock[id] = 0]
    /\ meterHeld' = (meterHeld /\ id /= meterCur)
    /\ UNCHANGED <<syncVars, shardVars, coreVars, saveVars, now>>
    /\ UNCHANGED <<meterPc, meterCur, meterLeft, expireTime, creator, meterRuns,
                   meterStart, meterFailed>>

\* minuteMetrics has not run, the sessions have no creator
MeterOff ==
    /\ meterPc = "next"
    /\ meterCur = DefaultRoom
    /\ meterLeft = {}
    /\ expireTime = 0
    /\ creator = [id \in AllIds |-> [uid |-> FALSE, clientId |-> FALSE]]
    /\ redis = NoRedis
    /\ meterRuns = 0
    /\ meterStart = NoRedis
    /\ meterHeld = FALSE
    /\ meterFailed = {}

\* saveRooms is between iterations
SaveOff ==
    /\ savePc = "sleep"
    /\ saveLeft = {}
    /\ saveLog = {}

RoomsOff ==
    /\ SaveOff
    /\ MeterOff
    /\ serverPc = "init"
    /\ postgres = FALSE
    /\ rooms = {}
    /\ roster = [id \in AllIds |-> 0]
    /\ vBrowser = [id \in AllIds |-> NoVBrowser]
    /\ lastUpdateTime = [id \in AllIds |-> launchTime]
    /\ now = launchTime
    /\ due = FALSE
    /\ currBatch = 0
    /\ persisted = {}
    /\ freePc = "idle"
    /\ persistedSet = {}
    /\ creating = {}
    /\ visits = [id \in AllIds |-> <<>>]
    /\ sweepLog = {}
    /\ emptyAtQuery = {}
    /\ pinned = {}

----------------------------------------------------------------------------
(* server/server.ts: the processes of a sharded deployment.                *)
(*                                                                         *)
(* Every process runs the same code with its own config.SHARD; the shards  *)
(* share the table room and nothing else.                                  *)

\* the code of 'a', and the number of letters that line 625 goes over
FirstLetter == 97
NumLetters == 26

\* the largest number of shards of SpecFilter, of shard processes of
\* SpecShards
MaxShards == 27
MaxProcs == 3

\* line 626
LetterShard(i, n) == (i % n) + 1

\* lines 624-630: the letters of this shard, in the order of the loop
RECURSIVE SelectionFrom(_, _, _)
SelectionFrom(i, s, n) ==
    IF i >= FirstLetter + NumLetters THEN <<>>
    ELSE IF LetterShard(i, n) = s
         THEN <<i>> \o SelectionFrom(i + 1, s, n)
         ELSE SelectionFrom(i + 1, s, n)

Selection(s, n) == SelectionFrom(FirstLetter, s, n)

Elems(q) == {q[i] : i \in 1..Len(q)}

\* "roomId" SIMILAR TO '/(a|b|...)%' (lines 631, 637): a slash, one of the
\* alternatives, anything. Without a letter the pattern is '/()%': the
\* empty alternative, which every id that starts with a slash matches.
SimilarTo(id, selection) ==
    /\ Len(id) >= 1
    /\ id[1] = 47
    /\ \/ selection = <<>>
       \/ Len(id) >= 2 /\ id[2] \in Elems(selection)

\* the rows getAllRooms returns to the process of shard s out of n
\* (s = 0: no config.SHARD, the range is '/%')
ShardRows(rows, s, n) ==
    IF s = 0 THEN {id \in rows : Len(id) >= 1 /\ id[1] = 47}
    ELSE {id \in rows : SimilarTo(id, Selection(s, n))}

\* resolveShard: the shard of the id's leading letter
resolveShard(id, n) == (id[2] % n) + 1

\* the ids SpecFilter looks at: a slash and a lower-case letter, and
\* '/default'
ValidIds ==
    {<<47, c>> : c \in FirstLetter..(FirstLetter + NumLetters - 1)}
        \cup {DefaultRoom}

\* getAllRooms builds the range of this process (lines 621-632)
BuildRange ==
    /\ UNCHANGED <<syncVars, roomVars>>
    /\ range = <<0>>
    /\ range' = Selection(shard, numShards)
    /\ UNCHANGED <<syncVars, roomVars>>
    /\ UNCHANGED <<numShards, shard, askedId, answer, shardPc, shardRooms,
                   shardRows>>

\* GET /resolveShard/:roomId (lines 378-381)
ResolveShardRoute(id) ==
    /\ askedId' = id
    /\ answer' = IF shard /= 0 THEN resolveShard(id, numShards) ELSE 0
    /\ UNCHANGED <<syncVars, roomVars>>
    /\ UNCHANGED <<numShards, shard, range, shardPc, shardRooms, shardRows>>

\* the names makeRoomName(shard) makes: names of the shard's own letters
RoomNames(s, n) == {id \in {RoomA, RoomB, RoomG} : resolveShard(id, n) = s}

\* init() of the process of shard s (lines 67-85): the rows of its range,
\* then '/default' if it is not among them
ShardInit(s) ==
    /\ s <= numShards
    /\ shardPc[s] = "down"
    /\ shardPc' = [shardPc EXCEPT ![s] = "up"]
    /\ LET loaded == ShardRows(shardRows, s, numShards)
       IN  shardRooms' = [shardRooms EXCEPT ![s] =
                             IF DefaultRoom \in loaded THEN loaded
                             ELSE loaded \cup {DefaultRoom}]
    /\ UNCHANGED <<syncVars, roomVars>>
    /\ UNCHANGED <<numShards, shard, askedId, range, answer, shardRows>>

\* /createRoom on the process of shard s (lines 250-279)
ShardCreateRoom(s, id) ==
    /\ s <= numShards
    /\ shardPc[s] = "up"
    /\ id \in RoomNames(s, numShards)
    /\ id \notin shardRooms[s]
    /\ shardRows' = shardRows \cup {id}
    /\ shardRooms' = [shardRooms EXCEPT ![s] = @ \cup {id}]
    /\ UNCHANGED <<syncVars, roomVars>>
    /\ UNCHANGED <<numShards, shard, askedId, range, answer, shardPc>>

\* a room of shard s is occupied and saved (lines 512-514)
ShardSaveRoom(s, id) ==
    /\ s <= numShards
    /\ shardPc[s] = "up"
    /\ id \in shardRooms[s]
    /\ id \notin shardRows
    /\ shardRows' = shardRows \cup {id}
    /\ UNCHANGED <<syncVars, roomVars>>
    /\ UNCHANGED <<numShards, shard, askedId, range, answer, shardPc,
                   shardRooms>>

\* freeUnusedRooms on the process of shard s (lines 602-615); `occupied`
\* are its rooms with a participant
ShardFreeUnusedRooms(s, occupied) ==
    /\ s <= numShards
    /\ shardPc[s] = "up"
    /\ occupied \subseteq shardRooms[s]
    /\ LET persistedHere == ShardRows(shardRows, s, numShards)
       IN  shardRooms' = [shardRooms EXCEPT ![s] =
                             {id \in @ : id \in occupied \/ id \in persistedHere}]
    /\ shardRooms'[s] /= shardRooms[s]
    /\ UNCHANGED <<syncVars, roomVars>>
    /\ UNCHANGED <<numShards, shard, askedId, range, answer, shardPc,
                   shardRows>>

\* a row of table room is deleted
ShardRowDeleted(id) ==
    /\ id \in shardRows
    /\ shardRows' = shardRows \ {id}
    /\ UNCHANGED <<syncVars, roomVars>>
    /\ UNCHANGED <<numShards, shard, askedId, range, answer, shardPc,
                   shardRooms>>

\* no deployment
ShardsOff ==
    /\ numShards = 1
    /\ shard = 0
    /\ askedId = <<>>
    /\ range = <<0>>
    /\ answer = 0
    /\ shardPc = [s \in 1..MaxProcs |-> "down"]
    /\ shardRooms = [s \in 1..MaxProcs |-> {}]
    /\ shardRows = {}

----------------------------------------------------------------------------
(* The specifications *)

\* no pass of the reconciler
SyncOff ==
    /\ alive = TRUE
    /\ creds = FALSE
    /\ lastSubsDigest = Undefined
    /\ currentSubsDigest = Undefined
    /\ pc = [p \in Pass |-> "idle"]
    /\ subs = [p \in Pass |-> <<>>]
    /\ uidMap = [p \in Pass |-> EmptyMap]
    /\ idx = [p \in Pass |-> 0]
    /\ result = [p \in Pass |-> <<>>]
    /\ queue = <<>>
    /\ txOpen = FALSE
    /\ dbSubscriber = EmptyBag
    /\ dbIsSubRoom = NoFlags
    /\ wSubscriber = EmptyBag
    /\ wIsSubRoom = NoFlags
    /\ provider = {}
    /\ started = 0
    /\ lastDone = [valid |-> FALSE, seq |-> <<>>]
    /\ sameAsPrev = [p \in Pass |-> FALSE]
    /\ addedOne = [p \in Pass |-> FALSE]
    /\ failedPass = 0

InitSync ==
    /\ alive = TRUE
    /\ creds \in BOOLEAN
    /\ lastSubsDigest = Undefined
    /\ currentSubsDigest = Undefined
    /\ pc = [p \in Pass |-> "idle"]
    /\ subs = [p \in Pass |-> <<>>]
    /\ uidMap = [p \in Pass |-> EmptyMap]
    /\ idx = [p \in Pass |-> 0]
    /\ result = [p \in Pass |-> <<>>]
    /\ queue = <<>>
    /\ txOpen = FALSE
    /\ dbSubscriber = EmptyBag
    /\ dbIsSubRoom = NoFlags
    /\ wSubscriber = EmptyBag
    /\ wIsSubRoom = NoFlags
    /\ provider \in ProviderRuns
    /\ started = 0
    /\ lastDone = [valid |-> FALSE, seq |-> <<>>]
    /\ sameAsPrev = [p \in Pass |-> FALSE]
    /\ addedOne = [p \in Pass |-> FALSE]
    /\ failedPass = 0
    /\ RoomsOff
    /\ ShardsOff

NextSync ==
    \E p \in Pass :
        \/ Timer(p)
        \/ StripeReturns(p)
        \/ FirebaseReturns(p)
        \/ ExternalCallFails(p)
        \/ ExecBegin(p)
        \/ ExecDelete(p)
        \/ ExecClear(p)
        \/ ExecInsert(p)
        \/ ExecFlag(p)
        \/ ExecCommit(p)
        \/ StatementFails(p)

SpecSync == InitSync /\ [][NextSync]_vars

\* the rooms of SpecRelease: "/g" and "/q" are of one batch
SweptIds == {RoomG, RoomQ}

\* the registry holds two rooms of one batch; sessions come and go
InitRelease ==
    /\ SyncOff
    /\ ShardsOff
    /\ SaveOff
    /\ MeterOff
    /\ serverPc = "up"
    /\ postgres = FALSE
    /\ rooms = SweptIds
    /\ roster = [id \in AllIds |-> 0]
    /\ vBrowser = [id \in AllIds |-> NoVBrowser]
    /\ lastUpdateTime = [id \in AllIds |-> launchTime]
    /\ now = launchTime
    /\ due = FALSE
    /\ currBatch = 0
    /\ persisted = {}
    /\ freePc = "idle"
    /\ persistedSet = {}
    /\ creating = {}
    /\ visits = [id \in AllIds |-> <<>>]
    /\ sweepLog = {}
    /\ emptyAtQuery = {}
    /\ pinned = {}

NextRelease ==
    \/ ReleaseTimer(ReleasePeriod)
    \/ Release
    \/ \E id \in AllIds :
          \/ Join(id)
          \/ Leave(id)
          \/ SaveRoom(id)
          \/ \E large \in BOOLEAN : AssignVBrowser(id, large)

SpecRelease == InitRelease /\ [][NextRelease]_vars

\* SpecRelease, and calls into a room that raise
NextReleaseErrors ==
    \/ NextRelease
    \/ \E thrower \in SweptIds, before \in SUBSET SweptIds :
          ReleaseRaises(thrower, before)

SpecReleaseErrors == InitRelease /\ [][NextReleaseErrors]_vars

\* the rooms /createRoom can name in SpecRegistry
CreatedIds == {RoomA}

\* the registry after init() (lines 67-85): the rows of table room, and
\* '/default'. No session is held and no room is saved, so the clock is
\* left where it is.
InitRegistry ==
    /\ SyncOff
    /\ ShardsOff
    /\ SaveOff
    /\ MeterOff
    /\ serverPc = "up"
    /\ postgres \in BOOLEAN
    /\ persisted \in SUBSET CreatedIds
    /\ ~postgres => persisted = {}
    /\ rooms = GetAllRooms \cup {DefaultRoom}
    /\ roster = [id \in AllIds |-> 0]
    /\ vBrowser = [id \in AllIds |-> NoVBrowser]
    /\ lastUpdateTime = [id \in AllIds |-> launchTime]
    /\ now = launchTime
    /\ due = FALSE
    /\ currBatch = 0
    /\ freePc = "idle"
    /\ persistedSet = {}
    /\ creating = {}
    /\ visits = [id \in AllIds |-> <<>>]
    /\ sweepLog = {}
    /\ emptyAtQuery = {}
    /\ pinned = {}

NextRegistry ==
    \/ ReleaseTimer(0)
    \/ Release
    \/ FreeQuery
    \/ FreeFinish
    \/ \E id \in AllIds :
          \/ Join(id)
          \/ Leave(id)
          \/ DeleteRow(id)
    \/ \E id \in CreatedIds :
          \/ CreateStart(id)
          \/ CreateRegister(id)

SpecRegistry == InitRegistry /\ [][NextRegistry]_vars

\* one process of a deployment of numShards shards
InitFilter ==
    /\ SyncOff
    /\ RoomsOff
    /\ numShards \in 1..MaxShards
    /\ shard \in 1..numShards
    /\ askedId = <<>>
    /\ range = <<0>>
    /\ answer = 0
    /\ shardPc = [s \in 1..MaxProcs |-> "down"]
    /\ shardRooms = [s \in 1..MaxProcs |-> {}]
    /\ shardRows = {}

NextFilter ==
    \/ BuildRange
    \/ \E id \in ValidIds : ResolveShardRoute(id)

SpecFilter == InitFilter /\ [][NextFilter]_vars

\* the processes of a deployment start over a table that holds any rows
InitShards ==
    /\ SyncOff
    /\ RoomsOff
    /\ numShards \in 1..MaxProcs
    /\ shard = 0
    /\ askedId = <<>>
    /\ range = <<0>>
    /\ answer = 0
    /\ shardPc = [s \in 1..MaxProcs |-> "down"]
    /\ shardRooms = [s \in 1..MaxProcs |-> {}]
    /\ shardRows \in SUBSET {RoomA, RoomB, DefaultRoom}

NextShards ==
    \/ \E s \in 1..MaxProcs : ShardInit(s)
    \/ \E s \in 1..MaxProcs, id \in AllIds : ShardCreateRoom(s, id)
    \/ \E s \in 1..MaxProcs, id \in AllIds : ShardSaveRoom(s, id)
    \/ \E s \in 1..MaxProcs, occupied \in SUBSET AllIds :
          ShardFreeUnusedRooms(s, occupied)
    \/ \E id \in AllIds : ShardRowDeleted(id)

SpecShards == InitShards /\ [][NextShards]_vars

\* a process starts: init() has not run yet
InitStartup ==
    /\ SyncOff
    /\ ShardsOff
    /\ SaveOff
    /\ MeterOff
    /\ serverPc = "init"
    /\ postgres \in BOOLEAN
    /\ persisted \in SUBSET CreatedIds
    /\ ~postgres => persisted = {}
    /\ rooms = {}
    /\ roster = [id \in AllIds |-> 0]
    /\ vBrowser = [id \in AllIds |-> NoVBrowser]
    /\ lastUpdateTime = [id \in AllIds |-> launchTime]
    /\ now = launchTime
    /\ due = FALSE
    /\ currBatch = 0
    /\ freePc = "idle"
    /\ persistedSet = {}
    /\ creating = {}
    /\ visits = [id \in AllIds |-> <<>>]
    /\ sweepLog = {}
    /\ emptyAtQuery = {}
    /\ pinned = {}

NextStartup ==
    \/ InitBegin
    \/ InitLoaded
    \/ InitQueryFails
    \/ ReleaseTimer(0)
    \/ Release
    \/ FreeQuery
    \/ FreeFinish
    \/ \E id \in AllIds :
          \/ Join(id)
          \/ Leave(id)
          \/ DeleteRow(id)
    \/ \E id \in CreatedIds :
          \/ CreateStart(id)
          \/ CreateRegister(id)

SpecStartup == InitStartup /\ [][NextStartup]_vars

\* the registry of SpecRegistry under the persistence loop
NextSave ==
    \/ SaveLoopBegin
    \/ SaveLoopEnd
    \/ FreeQuery
    \/ FreeFinish
    \/ \E id \in AllIds :
          \/ SaveVisit(id)
          \/ Join(id)
          \/ Leave(id)
          \/ DeleteRow(id)
    \/ \E id \in CreatedIds :
          \/ CreateStart(id)
          \/ CreateRegister(id)

SpecSave == InitRegistry /\ [][NextSave]_vars

\* minuteMetrics over two rooms and their sessions
InitMetrics ==
    /\ SyncOff
    /\ ShardsOff
    /\ SaveOff
    /\ serverPc = "up"
    /\ postgres = FALSE
    /\ rooms = SweptIds
    /\ roster = [id \in AllIds |-> 0]
    /\ vBrowser = [id \in AllIds |-> NoVBrowser]
    /\ lastUpdateTime = [id \in AllIds |-> launchTime]
    /\ now \in {launchTime, DaySeconds * 1000 - 2 * MetricsPeriod}
    /\ due = FALSE
    /\ currBatch = 0
    /\ persisted = {}
    /\ freePc = "idle"
    /\ persistedSet = {}
    /\ creating = {}
    /\ visits = [id \in AllIds |-> <<>>]
    /\ sweepLog = {}
    /\ emptyAtQuery = {}
    /\ pinned = {}
    /\ meterPc = "next"
    /\ meterCur = DefaultRoom
    /\ meterLeft = {}
    /\ expireTime = 0
    /\ creator \in [AllIds -> [uid : BOOLEAN, clientId : BOOLEAN]]
    /\ \A id \in AllIds \ SweptIds : creator[id] = [uid |-> FALSE, clientId |-> FALSE]
    /\ creator[RoomQ] = [uid |-> TRUE, clientId |-> FALSE]
    /\ redis = NoRedis
    /\ meterRuns = 0
    /\ meterStart = NoRedis
    /\ meterHeld = FALSE
    /\ meterFailed = {}

NextMetrics ==
    \/ MetricsTimer
    \/ MeterStep
    \/ \E id \in SweptIds :
          \/ MeterVisit(id)
          \/ SessionStart(id)
          \/ SessionStop(id)

SpecMetrics == InitMetrics /\ [][NextMetrics]_vars

\* minuteMetrics with calls the store rejects
SpecMetricsErrors == InitMetrics /\ [][NextMetrics \/ MeterFails]_vars

\* SpecSave, and saves that reject
SpecSaveErrors ==
    InitRegistry /\ [][NextSave \/ \E id \in AllIds : SaveVisitRaises(id)]_vars

\* the reconciler when every pass is over before the timer fires again and
\* no call to a collaborator is rejected
SpecSyncSerial ==
    InitSync /\ [][\/ Timer(1)
                   \/ StripeReturns(1)
                   \/ FirebaseReturns(1)
                   \/ ExecBegin(1)
                   \/ ExecDelete(1)
                   \/ ExecClear(1)
                   \/ ExecInsert(1)
                   \/ ExecFlag(1)
                   \/ ExecCommit(1)]_vars

----------------------------------------------------------------------------
(* Claims about the subscriber reconciler *)

\* the pass has issued statements on postgres2 (it is inside lines 73-87)
Writing(p) == pc[p] \in TxPcs

\* C1: of two consecutive passes with identical resolved-uid sequences (the
\* earlier one is the last pass to have completed, and no other pass is in
\* flight when the later one compares digests), the second issues no
\* statement: no BEGIN, DELETE, UPDATE, INSERT or COMMIT.
C1_SecondPassWritesNothing ==
    \A p \in Pass : sameAsPrev[p] => ~Writing(p)

\* the candidate records of a pass that is given the subscription list ss
Candidates(ss) == MakeResult(ss, LookupBatch(EmptyMap, ss, 0))

\* pass p's COMMIT resolves in this step
Commits(p) == pc[p] = "commit" /\ pc'[p] = "idle" /\ failedPass' = failedPass

\* C2: when a pass whose resolved-uid sequence is the previous pass's plus
\* one uid commits, the subscriber table holds exactly the pass's candidate
\* records and isSubRoom is true for exactly the rooms whose owner is one of
\* the candidates' uids.
C2_CommitReplacesTables ==
    [][\A p \in Pass :
          (Commits(p) /\ addedOne[p]) =>
              /\ dbSubscriber' = PostSubscriber(result[p])
              /\ dbIsSubRoom' = PostIsSubRoom(result[p])]_vars

\* C3: what other readers see (the committed tables) is always the state
\* before any pass or the whole outcome of one pass: never a part of the
\* clear / insert / flag steps.
C3_CommittedStateIsWhole ==
    \/ dbSubscriber = EmptyBag /\ dbIsSubRoom = NoFlags
    \/ \E ss \in provider :
          /\ dbSubscriber = PostSubscriber(Candidates(ss))
          /\ dbIsSubRoom = PostIsSubRoom(Candidates(ss))

\* C4: once a statement of the transaction has failed the process is gone:
\* no pass moves (no further statement, no later pass), the stored digest
\* and the committed tables stay as they were before the failing statement.
C4_FailureTerminates ==
    [][failedPass' /= 0 =>
          /\ ~alive'
          /\ lastSubsDigest' = lastSubsDigest
          /\ pc' = pc
          /\ queue' = queue
          /\ started' = started
          /\ dbSubscriber' = dbSubscriber
          /\ dbIsSubRoom' = dbIsSubRoom]_vars

\* a statement failed midway: after the tables were cleared, while another
\* pass was in flight
C4_Witness ==
    /\ failedPass /= 0
    /\ pc[failedPass] \in {"insert", "flag", "commit"}
    /\ \E q \in Pass \ {failedPass} : pc[q] /= "idle"


\* C17: without the billing or the identity credentials a pass does nothing:
\* no pass ever leaves line 22 (no provider is called, no statement is
\* issued), the tables and the stored digest stay as they are.
C17_NoCredentialsNoOp ==
    [][~creds =>
          /\ \A p \in Pass : pc[p] = "idle" /\ pc'[p] = "idle"
          /\ queue' = <<>>
          /\ lastSubsDigest' = lastSubsDigest
          /\ dbSubscriber' = dbSubscriber
          /\ dbIsSubRoom' = dbIsSubRoom
          /\ wSubscriber' = wSubscriber
          /\ wIsSubRoom' = wIsSubRoom]_vars

\* the timer has called syncSubscribers, twice, without credentials
C17_Witness ==
    /\ ~creds
    /\ started >= 2

C24_StoredDigestIsOwn ==
    [][\A p \in Pass :
          /\ Commits(p) => lastSubsDigest' = Digest(Uids(result[p]))
          /\ (pc[p] = "lookup" /\ pc'[p] = "idle" /\ lastDone' /= lastDone)
                => lastSubsDigest' = Digest(lastDone'.seq)]_vars

\* C25: when a pass completes without error, after its COMMIT or straight
\* from an unchanged comparison, the rows of table subscriber are the
\* pass's candidate records.
C25_TableIsCandidates ==
    [][\A p \in Pass :
          LET records == CASE pc[p] = "commit" -> result[p]
                           [] pc[p] = "lookup" -> Candidates(subs[p])
                           [] OTHER -> <<>>
          IN  (/\ pc[p] \in {"fetch", "lookup", "commit"}
               /\ pc'[p] = "idle"
               /\ alive'
               /\ ~HashThrows(records))
                  => dbSubscriber' = PostSubscriber(records)]_vars

\* C28: a pass one of whose subscriptions resolves to no uid goes on from
\* its lookups to the transaction, or to line 94 with its own digest stored.
C28_UnresolvedIdentityCompletes ==
    [][\A p \in Pass :
          (/\ pc[p] = "lookup"
           /\ pc'[p] /= "lookup"
           /\ HashThrows(Candidates(subs[p])))
              => \/ pc'[p] = "begin"
                 \/ lastSubsDigest' = Digest(Uids(Candidates(subs[p])))]_vars

\* C29: once the passes that overlapped are over (none in flight, none
\* failed), table subscriber and the isSubRoom flags are the outcome of one
\* pass, or as they were before any pass.
C29_OverlapLeavesOnePass ==
    (alive /\ failedPass = 0 /\ \A p \in Pass : pc[p] = "idle") =>
        \/ dbSubscriber = EmptyBag /\ dbIsSubRoom = NoFlags
        \/ \E ss \in provider :
              /\ dbSubscriber = PostSubscriber(Candidates(ss))
              /\ dbIsSubRoom = PostIsSubRoom(Candidates(ss))

----------------------------------------------------------------------------
(* Claims about the release sweep and the registry *)

\* this step is an invocation of release
ReleaseStep == due /\ ~due'

\* the sweep that starts in this state selects the room, which holds a
\* session
Selected(id) ==
    /\ id \in rooms
    /\ hashString(id) % releaseBatches = currBatch
    /\ vBrowser[id].set

\* the session's remaining time: maxTime - (now - assignTime)
RemainingTime(id) ==
    getSessionLimitSeconds(vBrowser[id].large) * 1000
        - (now - vBrowser[id].assignTime)

\* C5: a sweep that selects a room whose session has ttl <= releaseInterval
\* releases that session.
C5_ReleasedWithinInterval ==
    [][ReleaseStep =>
          \A id \in AllIds :
              (Selected(id) /\ RemainingTime(id) <= releaseInterval)
                  => ~vBrowser'[id].set]_vars

FiveMinutes == 5 * 60 * 1000

\* C6: a sweep that selects a room whose session it holds while its roster
\* is empty and its lastUpdateTime is more than five minutes old releases
\* the session, whatever the session's ttl.
C6_EmptyIdleReleased ==
    [][ReleaseStep =>
          \A id \in AllIds :
              (/\ Selected(id)
               /\ roster[id] = 0
               /\ now - lastUpdateTime[id] > FiveMinutes)
                  => ~vBrowser'[id].set]_vars

\* the last sweep released the session of an empty, idle room that had more
\* than releaseInterval left
C6_Witness ==
    \E e \in sweepLog :
        /\ e.empty /\ e.idle
        /\ e.ttl > releaseInterval
        /\ ~vBrowser[e.room].set

\* C7: a room that sat in the registry through releaseBatches consecutive
\* sweeps was selected in exactly one of them.
C7_SelectedOncePerRotation ==
    \A id \in rooms :
        Len(visits[id]) = releaseBatches
            => Cardinality({i \in 1..releaseBatches : visits[id][i]}) = 1

\* a room made by /createRoom sat through releaseBatches sweeps that did not
\* start with batch 0, and was selected in neither the first nor the last
C7_Witness ==
    /\ RoomA \in rooms
    /\ Len(visits[RoomA]) = releaseBatches
    /\ ~visits[RoomA][1]
    /\ ~visits[RoomA][releaseBatches]
    /\ currBatch /= 0

\* C8: whenever a room leaves the registry its roster is empty at that
\* moment.
C8_NeverRemovesOccupied ==
    [][\A id \in rooms \ rooms' : roster[id] = 0]_vars

\* the last reclaim kept a room that has no row and whose roster was empty
\* when the query ran: a participant joined while the query was in flight
C8_Witness ==
    /\ freePc = "idle"
    /\ \E id \in pinned : id \in rooms /\ roster[id] > 0

\* init() is not running any more: it returned, or it rejected
InitOver == serverPc \notin {"init", "loading"}

\* C14: whatever the startup query does, startup completes: once init() is
\* over the process serves (it listens, its four loops are started).
C14_StartupCompletes == InitOver => serverPc = "up"

\* the sweep of this step raised for room t
RaisedFor(t) == \E e \in sweepLog' : e.room = t /\ e.raised

\* room id is due for release: timed out (0 < ttl < releaseInterval, or
\* ttl < 0) or empty and idle
DueForRelease(id) ==
    \/ RemainingTime(id) /= 0 /\ RemainingTime(id) < releaseInterval
    \/ roster[id] = 0 /\ now - lastUpdateTime[id] > FiveMinutes

\* C13: when a sweep raises for one room, every other room it selected is
\* still evaluated, and released if it is due.
C13_SiblingsStillSwept ==
    [][ReleaseStep =>
          \A t \in AllIds : \A id \in AllIds \ {t} :
              (RaisedFor(t) /\ Selected(id)) =>
                  /\ \E e \in sweepLog' : e.room = id
                  /\ DueForRelease(id) => ~vBrowser'[id].set]_vars

\* how the last sweep treated room id
Logged(id) == CHOOSE e \in sweepLog' : e.room = id

\* C18: a sweep that selects a room whose session has
\* releaseInterval < ttl <= 2 * releaseInterval, the room not being empty
\* and idle, emits vBrowserAlmostTimeout for it and nothing else: the
\* session, the roster and the counters stay.
C18_AlmostTimedOutNotifiesOnly ==
    [][ReleaseStep =>
          \A id \in AllIds :
              (/\ Selected(id)
               /\ RemainingTime(id) > releaseInterval
               /\ RemainingTime(id) <= 2 * releaseInterval
               /\ ~(roster[id] = 0 /\ now - lastUpdateTime[id] > FiveMinutes))
                  => /\ \E e \in sweepLog' : e.room = id
                     /\ Logged(id).chat = "vBrowserAlmostTimeout"
                     /\ Logged(id).count = "none"
                     /\ vBrowser'[id] = vBrowser[id]
                     /\ roster' = roster]_vars

\* C19: every release of a sweep comes with the events of its cause: a
\* timed-out session with the vBrowserTimeout chat message and the timeout
\* counter, an empty and idle room with no chat message and the empty
\* counter; never both counters, never none.
C19_EventsMatchCause ==
    [][ReleaseStep =>
          \A id \in AllIds :
              (vBrowser[id].set /\ ~vBrowser'[id].set) =>
                  /\ \E e \in sweepLog' : e.room = id
                  /\ \/ /\ Logged(id).chat = "vBrowserTimeout"
                        /\ Logged(id).count = "vBrowserTerminateTimeout"
                        /\ RemainingTime(id) < releaseInterval
                     \/ /\ Logged(id).chat = "none"
                        /\ Logged(id).count = "vBrowserTerminateEmpty"
                        /\ roster[id] = 0
                        /\ now - lastUpdateTime[id] > FiveMinutes
                  /\ ~(roster[id] = 0 /\ now - lastUpdateTime[id] > FiveMinutes)
                        => Logged(id).count = "vBrowserTerminateTimeout"
                  /\ RemainingTime(id) > releaseInterval
                        => Logged(id).count = "vBrowserTerminateEmpty"]_vars

\* one sweep released two sessions, one for each cause
C19_Witness ==
    \E e1 \in sweepLog : \E e2 \in sweepLog :
        /\ e1.count = "vBrowserTerminateTimeout"
        /\ e2.count = "vBrowserTerminateEmpty"
        /\ ~vBrowser[e1.room].set
        /\ ~vBrowser[e2.room].set

C16_SavesOccupiedRoomsOnly ==
    [][\A id \in saveLeft \ saveLeft' :
          IF roster[id] > 0
          THEN /\ postgres => id \in persisted'
               /\ \E e \in saveLog' : e.room = id /\ e.saved
          ELSE /\ persisted' = persisted
               /\ lastUpdateTime' = lastUpdateTime
               /\ \E e \in saveLog' : e.room = id /\ ~e.saved]_vars

\* one iteration wrote the row of an occupied room, which had none, and
\* passed over an empty room
C16_Witness ==
    /\ postgres
    /\ \E e1 \in saveLog : \E e2 \in saveLog :
          /\ e1.saved /\ e1.room \in persisted /\ e1.room = DefaultRoom
          /\ ~e2.saved /\ e2.room \notin persisted

\* C22: without a durable store (no DATABASE_URL) a run of freeUnusedRooms
\* leaves the registry as it is.
C22_NoStoreNoReclaim ==
    [][(~postgres /\ freePc = "reply" /\ freePc' = "idle") => rooms' = rooms]_vars

\* C26: every invocation of release, one that is ended by a raise included,
\* leaves the batch counter one further (mod releaseBatches), within
\* 0 .. releaseBatches - 1.
C26_BatchAdvancesEveryCall ==
    [][ReleaseStep =>
          /\ currBatch' = (currBatch + 1) % releaseBatches
          /\ currBatch' \in 0..(releaseBatches - 1)]_vars

\* C27: at the end of a sweep that selected a room, the room holds no
\* session whose time is up (ttl <= 0).
C27_NoSessionOutlivesAllotment ==
    [][ReleaseStep =>
          \A id \in AllIds :
              Selected(id) => ~(vBrowser'[id].set /\ RemainingTime(id) <= 0)]_vars

\* C21: while the process runs the persistence loop runs: it is inside an
\* iteration or asleep between two, also after a save that failed, so the
\* occupied rooms are saved by the iterations to come.
C21_SaveLoopKeepsRunning ==
    serverPc = "up" => savePc \in {"loop", "sleep"}

\* ---------------------------------------------------------------------
\* claims on minuteMetrics
\* ---------------------------------------------------------------------

\* C11: while the process runs, a room that holds a session, and no call
\* made for which the store has rejected, has a provider lock with seconds
\* left, and a creator-uid lock with seconds left if the session has a
\* creator uid, whatever calls made for other rooms the store rejected.
C11_LocksNeverExpire ==
    serverPc = "up" =>
        \A id \in rooms :
            (vBrowser[id].set /\ id \notin meterFailed) =>
                /\ redis.lock[id] > 0
                /\ creator[id].uid => redis.uidLock[id] > 0

\* C12: the period of the renewal loop is strictly less than the seconds
\* either lock is renewed to, so a lock renewed to its full time still has
\* seconds left when the timer fires next.
C12_PeriodBelowLockTtl ==
    [][/\ MetricsPeriod < ProviderLockTtl * 1000
       /\ MetricsPeriod < UidLockTtl * 1000
       /\ now' = now + MetricsPeriod =>
             \A id \in AllIds :
                 /\ redis.lock[id] = ProviderLockTtl => redis'.lock[id] > 0
                 /\ redis.uidLock[id] = UidLockTtl => redis'.uidLock[id] > 0]_vars

\* the second run or a later one has renewed both locks of a session
C12_Witness ==
    /\ meterRuns >= 2
    /\ meterPc = "client"
    /\ meterHeld
    /\ redis.lock[meterCur] = ProviderLockTtl
    /\ redis.uidLock[meterCur] = UidLockTtl

\* C20: when a run is through with a room that kept its session, the uid
\* counter of the session's creator is one more than when the run came to
\* the room if the session has a creator uid, the client-id counter one
\* more if it has a client id, the expiry of each counter set incremented
\* is the end of the day, and nothing else of the counters has changed.
C20_MetersEachIdentityOnce ==
    [][(meterPc /= "next" /\ meterPc' = "next" /\ meterHeld) =>
          LET id == meterCur
              c == creator[id]
              endOfDay == ((now \div 1000) \div DaySeconds + 1) * DaySeconds
              plus(b) == IF b THEN 1 ELSE 0
          IN  /\ redis'.uidMinutes =
                    [meterStart.uidMinutes EXCEPT ![id] = @ + plus(c.uid)]
              /\ redis'.clientMinutes =
                    [meterStart.clientMinutes EXCEPT ![id] = @ + plus(c.clientId)]
              /\ redis'.uidExpiry =
                    IF c.uid THEN endOfDay ELSE meterStart.uidExpiry
              /\ redis'.clientExpiry =
                    IF c.clientId THEN endOfDay ELSE meterStart.clientExpiry]_vars

\* a run is through with a session of both identities, in a day after the
\* one in which the counters were first set
C20_Witness ==
    /\ meterPc = "next"
    /\ meterHeld
    /\ creator[meterCur].uid /\ creator[meterCur].clientId
    /\ redis.uidMinutes[meterCur] >= 1
    /\ redis.clientMinutes[meterCur] >= 1
    /\ redis.uidExpiry = 2 * DaySeconds
    /\ redis.clientExpiry = 2 * DaySeconds

----------------------------------------------------------------------------
(* Claims about the shards *)

\* C9: the load filters of the N shards partition the room ids: an id
\* matches the filter of the shard that /resolveShard names for it, a
\* number in 1..N, and of no other shard.
C9_FiltersPartition ==
    (askedId /= <<>> /\ range /= <<0>>) =>
        /\ answer \in 1..numShards
        /\ SimilarTo(askedId, range) <=> (answer = shard)

\* C10: a room id is in the registry of the shard responsible for it and of
\* no other shard.
C10_OwnedByOneShard ==
    \A s \in 1..MaxProcs :
        \A id \in shardRooms[s] : s = resolveShard(id, numShards)

====
